---- MODULE Spec2Model ----
(***************************************************************************)
(* Inventory / point-of-sale backend (backend/server.js).                  *)
(*                                                                         *)
(* The model covers the product documents of productsDb, the sale          *)
(* documents of salesDb and the request handlers that touch them:          *)
(*   POST /api/sales          (line loop: get product, check, decrement,   *)
(*                             insert product; then insert sale)           *)
(*   POST /api/products       (sanitizeProductInput, insert)               *)
(*   PUT  /api/products/:id   (get, assign fields, insert)                 *)
(*   DELETE /api/products/:id (get, destroy)                               *)
(* Every await on a store call is a scheduling point, so each store call   *)
(* is one atomic step and the synchronous code between two awaits belongs  *)
(* to the step of the store call that precedes it.  The items array of a   *)
(* sale is read one element per iteration, so each element (and whether    *)
(* there is a further one) is drawn when the loop reaches it.              *)
(***************************************************************************)
EXTENDS Integers, Sequences, FiniteSets, TLC

\* ------------------------------------------------------------------ bounds
\* number of request handlers that may run concurrently in one behaviour
NumReq == 2
\* largest items array of a sale request
MaxLines == 2
\* largest stock of a product that exists in the initial state
MaxStock == 1

Reqs == 1..NumReq
ProductIds == {"p1", "p2"}

\* ------------------------------------------------- JavaScript number values
\* A value is a number, NaN, or (after a JSON round trip of NaN) null.
Num(n) == [k |-> "num", n |-> n]
NaN == [k |-> "nan", n |-> 0]
Null == [k |-> "null", n |-> 0]

\* ToNumber as applied by <, <=, -, *, + : null converts to 0
ToNumber(x) == IF x.k = "null" THEN Num(0) ELSE x

JsLt(a, b) ==
    LET x == ToNumber(a)
        y == ToNumber(b)
    IN  x.k = "num" /\ y.k = "num" /\ x.n < y.n

JsLe(a, b) ==
    LET x == ToNumber(a)
        y == ToNumber(b)
    IN  x.k = "num" /\ y.k = "num" /\ x.n <= y.n

JsSub(a, b) ==
    LET x == ToNumber(a)
        y == ToNumber(b)
    IN  IF x.k = "num" /\ y.k = "num" THEN Num(x.n - y.n) ELSE NaN

JsMul(a, b) ==
    LET x == ToNumber(a)
        y == ToNumber(b)
    IN  IF x.k = "num" /\ y.k = "num" THEN Num(x.n * y.n) ELSE NaN

JsAdd(a, b) ==
    LET x == ToNumber(a)
        y == ToNumber(b)
    IN  IF x.k = "num" /\ y.k = "num" THEN Num(x.n + y.n) ELSE NaN

\* JSON.stringify of the request sent to the store writes NaN as null
Json(x) == IF x.k = "nan" THEN Null ELSE x

\* ------------------------------------------------------ request body values
\* A field of a request body: absent, a JSON number, a numeric string
\* ("0", "2") or a non-numeric string ("abc").
Undefined == [t |-> "undefined", v |-> 0]
RawNumber(n) == [t |-> "number", v |-> n]
RawNumStr(n) == [t |-> "numstr", v |-> n]
RawText == [t |-> "text", v |-> 0]

\* truthiness as used by `x || d`
Truthy(raw) ==
    CASE raw.t = "undefined" -> FALSE
      [] raw.t = "number" -> raw.v # 0
      [] raw.t = "numstr" -> TRUE
      [] raw.t = "text" -> TRUE

OrDefault(raw, d) == IF Truthy(raw) THEN raw ELSE RawNumber(d)

parseInt(raw) ==
    CASE raw.t = "undefined" -> NaN
      [] raw.t = "number" -> Num(raw.v)
      [] raw.t = "numstr" -> Num(raw.v)
      [] raw.t = "text" -> NaN

Number(raw) ==
    CASE raw.t = "undefined" -> NaN
      [] raw.t = "number" -> Num(raw.v)
      [] raw.t = "numstr" -> Num(raw.v)
      [] raw.t = "text" -> NaN

\* the values a request may carry in a quantity or stock field
RawQuantities ==
    {Undefined, RawNumber(0), RawNumber(-1), RawNumber(2), RawNumStr(0), RawText}

\* the quantities the claims call invalid: zero, negative or non-numeric
RawInvalid(raw) ==
    \/ raw.t = "text"
    \/ raw.t \in {"number", "numstr"} /\ raw.v <= 0

\* --------------------------------------------------------------- documents
NameOf(id) == IF id = "p1" THEN "A" ELSE "B"
PriceOf(id) == IF id = "p1" THEN Num(2) ELSE Num(3)

\* a slot of productsDb that has never held a document
Absent ==
    [id |-> "", state |-> "absent", rev |-> 0, name |-> "",
     price |-> Num(0), stock |-> Num(0)]

LiveDoc(id, name, price, stock) ==
    [id |-> id, state |-> "live", rev |-> 1, name |-> name,
     price |-> price, stock |-> stock]

NoSale == [persisted |-> FALSE, items |-> << >>, total |-> Num(0)]

\* ---------------------------------------------------------------- responses
\* status and JSON body of a response; a message that embeds a value keeps
\* the value in arg, and message texts are written without accents
NoResp == [status |-> 0, message |-> "", arg |-> ""]
Resp(status, message, arg) == [status |-> status, message |-> message, arg |-> arg]

\* err.message of the errors the store client throws
ConflictMessage == "Document update conflict."
MissingMessage(doc) == IF doc.state = "deleted" THEN "deleted" ELSE "missing"

\* ------------------------------------------------------------------- state
VARIABLES
    products,   \* productsDb: id -> current revision of the product document
    sales,      \* salesDb: the sale document persisted by each request
    req,        \* per request handler: its position and local variables
    init,       \* productsDb as it was in the initial state (history)
    users,      \* usersDb: id -> current revision of the user document
    auth,       \* per auth request handler: its position and local variables
    now         \* Date.now()

vars == <<products, sales, req, init, users, auth, now>>

IdleReq ==
    [op |-> "none", pc |-> "idle", line |-> 0,
     productId |-> "", quantity |-> Num(0), productDoc |-> Absent,
     saleItems |-> << >>, total |-> Num(0),
     resp |-> NoResp, outcome |-> "", badQty |-> FALSE, soleUnit |-> "",
     asked |-> << >>]

\* ------------------------------------------------------------ /api/auth
\* a field that the request body does not carry
NotGiven == "<undefined>"

\* the auth requests: emails and passwords a body may carry, the ids of
\* user documents (0 is the user present at the start, r the one handler r
\* registers) and reset tokens (handler r issues token r)
Emails == {"a", "b"}
Passwords == {"pw1", "pw2"}
NewPasswords == {"pw2"}
UserIds == 0..NumReq
NoToken == -1
StartToken == 0
Tokens == StartToken..NumReq

\* Date.now() + 1000 * 60 * 60: the life of a reset token in milliseconds
ResetTtl == 1000 * 60 * 60

\* the number of times the clock moves
MaxTicks == 2

\* bcrypt.hash(password, 10): a value that bcrypt.compare matches with that
\* password and with no other
Hash(password) == [alg |-> "bcrypt", of |-> password]

\* bcrypt.compare(data, hash) rejects when data is not a string
CompareThrows(data) == data = NotGiven

Compare(data, hash) == hash = Hash(data)

NoUser ==
    [id |-> 0, state |-> "absent", rev |-> 0, email |-> "",
     passwordHash |-> Hash(""), resetToken |-> NoToken, resetExpires |-> 0]

\* the user document the register handler builds
UserDoc(id, email, passwordHash) ==
    [id |-> id, state |-> "live", rev |-> 0, email |-> email,
     passwordHash |-> passwordHash, resetToken |-> NoToken, resetExpires |-> 0]

NoAuthResp == [status |-> 0, message |-> ""]
AuthResp(status, message) == [status |-> status, message |-> message]

IdleAuth ==
    [op |-> "none", pc |-> "idle", email |-> "", token |-> NoToken,
     user |-> NoUser, resp |-> NoAuthResp]

\* a user is registered and has asked for a reset at time 0
InitAuth ==
    /\ users = [id \in UserIds |->
                  IF id = 0
                  THEN [UserDoc(0, "a", Hash("pw1"))
                          EXCEPT !.rev = 1,
                                 !.resetToken = StartToken,
                                 !.resetExpires = ResetTtl]
                  ELSE NoUser]
    /\ auth = [r \in Reqs |-> IdleAuth]
    /\ now = 0

Init ==
    /\ \E s \in 0..MaxStock :
          products = [id \in ProductIds |->
                        IF id = "p1"
                        THEN LiveDoc(id, NameOf(id), PriceOf(id), Num(s))
                        ELSE Absent]
    /\ sales = [r \in Reqs |-> NoSale]
    /\ req = [r \in Reqs |-> IdleReq]
    /\ init = products
    /\ InitAuth

\* ------------------------------------------------------- the document store
\* productsDb.get resolves for a live document and throws otherwise
DbFound(db, id) == db[id].state = "live"

\* productsDb.insert(doc) of a document that carries _rev: accepted only when
\* _rev is the current revision of a live document
DbAccepts(db, doc) == db[doc.id].state = "live" /\ db[doc.id].rev = doc.rev

DbInsert(db, doc) ==
    [db EXCEPT ![doc.id] =
        [doc EXCEPT !.rev = doc.rev + 1,
                    !.price = Json(doc.price),
                    !.stock = Json(doc.stock)]]

\* the write sent with whatever revision is current instead of the one read
ForceWriteDoc(db, doc) == [doc EXCEPT !.rev = db[doc.id].rev]

\* the document handed to productsDb.insert is the object productsDb.get
\* returned, so it carries the _rev that was read
WriteDoc(db, doc) == doc

\* productsDb.destroy(id, rev)
DbDestroy(db, doc) ==
    [db EXCEPT ![doc.id] = [@ EXCEPT !.state = "deleted", !.rev = doc.rev + 1]]

\* Handlers are interchangeable, so they are numbered in the order in which
\* they start: handler r starts only after the handlers before it.
Starts(r) ==
    /\ req[r].pc = "idle"
    /\ \A q \in Reqs : q < r => req[q].pc # "idle"

\* ------------------------------------------------------- POST /api/sales
AllButLast(seq) == SubSeq(seq, 1, Len(seq) - 1)

\* the handler returns: its response is sent and its locals are gone; of the
\* lines it asked for, the record keeps those whose write was accepted, which
\* at a return or throw inside an iteration are all but the current one
Return(cur, resp, outcome) ==
    [cur EXCEPT !.pc = "done", !.resp = resp, !.outcome = outcome,
                !.productId = "", !.quantity = Num(0),
                !.productDoc = Absent, !.saleItems = << >>, !.total = Num(0),
                !.asked = AllButLast(@)]

\* the return for lack of stock: productId and quantity stay as the record
\* of the item that was refused
ReturnRefused(cur, resp, outcome) ==
    [cur EXCEPT !.pc = "done", !.resp = resp, !.outcome = outcome,
                !.productDoc = Absent, !.saleItems = << >>, !.total = Num(0),
                !.asked = AllButLast(@)]

Finish(r, status, message, arg, outcome) ==
    Return(req[r], Resp(status, message, arg), outcome)

\* catch (err): 400 with err.message
CatchResponse(errMessage) == Resp(400, errMessage, "")

Caught(r, errMessage, outcome) ==
    Return(req[r], CatchResponse(errMessage), outcome)

Quantity(rawQuantity) == parseInt(OrDefault(rawQuantity, 1))

QuantityInvalid(quantity) == JsLe(quantity, Num(0))

\* the comparison written the other way round
StockInsufficientReversed(productDoc, quantity) == JsLt(quantity, productDoc.stock)

\* productDoc.stock < quantity (a product document always has a stock field:
\* sanitizeProductInput sets it and the update handler only replaces it)
StockInsufficient(productDoc, quantity) == JsLt(productDoc.stock, quantity)

\* the response built from the document id instead of its name
InsufficientResponseId(productDoc) ==
    Resp(400, "Stock insuficiente para producto", productDoc.id)

\* the shortage reported with the text of a store error
InsufficientResponseGeneric(productDoc) == Resp(400, ConflictMessage, "")

\* 400 `Stock insuficiente para producto ${productDoc.name}`
InsufficientResponse(productDoc) ==
    Resp(400, "Stock insuficiente para producto", productDoc.name)

ItemTotal(productDoc, quantity) == JsMul(productDoc.price, quantity)

SaleItem(productDoc, quantity) ==
    [productId |-> productDoc.id, productName |-> productDoc.name,
     quantity |-> quantity, unitPrice |-> productDoc.price,
     total |-> ItemTotal(productDoc, quantity)]

AddTotal(total, itemTotal) == JsAdd(total, itemTotal)

\* the item put at the head of the array
PushItemFront(saleItems, item) == <<item>> \o saleItems

\* saleItems.push(item)
PushItem(saleItems, item) == Append(saleItems, item)

\* the copy written back with the stock it was read with
DecrementKeepStock(productDoc, quantity) == productDoc

\* productDoc.stock -= quantity
Decrement(productDoc, quantity) ==
    [productDoc EXCEPT !.stock = JsSub(productDoc.stock, quantity)]

\* one iteration of the line loop up to the await of productsDb.insert
\* (line counts the items taken from the array so far):
\* parse and check the quantity, get the product, check the stock, push the
\* sale item, add to the total and decrement the stock of the copy read
SaleLine(r, productId, rawQuantity) ==
    LET quantity == Quantity(rawQuantity)
        cur == [req[r] EXCEPT !.op = "sale",
                              !.line = @ + 1,
                              !.productId = productId,
                              !.quantity = quantity,
                              !.badQty = @ \/ RawInvalid(rawQuantity),
                              !.soleUnit = IF req[r].line = 0 /\ quantity = Num(1)
                                           THEN productId ELSE "",
                              !.asked = Append(@, [productId |-> productId,
                                                   quantity |-> quantity])]
    IN  IF QuantityInvalid(quantity)
        THEN Return(cur, Resp(400, "Cantidad invalida", ""), "InvalidQuantity")
        ELSE IF ~DbFound(products, productId)
        THEN Return(cur, CatchResponse(MissingMessage(products[productId])),
                    "NotFound")
        ELSE LET productDoc == products[productId]
             IN  IF StockInsufficient(productDoc, quantity)
                 THEN ReturnRefused(cur, InsufficientResponse(productDoc),
                                    "InsufficientStock")
                 ELSE [cur EXCEPT !.pc = "insert",
                                  !.productDoc = Decrement(productDoc, quantity),
                                  !.saleItems = PushItem(@, SaleItem(productDoc, quantity)),
                                  !.total = AddTotal(@, ItemTotal(productDoc, quantity))]

\* the decrement written before the stock is checked
ProductsAfterLineEager(db, productId, quantity) ==
    IF DbFound(db, productId) /\ ~QuantityInvalid(quantity)
          /\ StockInsufficient(db[productId], quantity)
    THEN DbInsert(db, Decrement(db[productId], quantity))
    ELSE db

\* productsDb after the get of a line: every return and throw of the
\* iteration comes before its productsDb.insert, so nothing is written
ProductsAfterLine(db, productId, quantity) == db

\* the head of the handler up to its first await: an items array that is
\* missing or empty is refused, otherwise the first iteration runs
SaleStart(r) ==
    /\ Starts(r)
    /\ \/ /\ req' = [req EXCEPT ![r] =
                  [Finish(r, 400, "Items son requeridos", "", "ItemsRequired")
                     EXCEPT !.op = "sale"]]
          /\ products' = products
       \/ \E productId \in ProductIds, rawQuantity \in RawQuantities :
             /\ req' = [req EXCEPT ![r] = SaleLine(r, productId, rawQuantity)]
             /\ products' = ProductsAfterLine(products, productId,
                                              Quantity(rawQuantity))
    /\ UNCHANGED <<sales, init, users, auth, now>>

\* a further iteration: the items array has another element
SaleGet(r) ==
    /\ req[r].op = "sale"
    /\ req[r].pc = "loop"
    /\ req[r].line < MaxLines
    /\ \E productId \in ProductIds, rawQuantity \in RawQuantities :
          /\ req' = [req EXCEPT ![r] = SaleLine(r, productId, rawQuantity)]
          /\ products' = ProductsAfterLine(products, productId, Quantity(rawQuantity))
    /\ UNCHANGED <<sales, init, users, auth, now>>

\* await productsDb.insert(productDoc): the revision-checked write of a line
SaleInsertProduct(r) ==
    /\ req[r].op = "sale"
    /\ req[r].pc = "insert"
    /\ IF DbAccepts(products, WriteDoc(products, req[r].productDoc))
       THEN /\ products' = DbInsert(products, WriteDoc(products, req[r].productDoc))
            /\ req' = [req EXCEPT ![r] =
                          [@ EXCEPT !.productDoc = Absent, !.pc = "loop"]]
       ELSE /\ products' = products
            /\ req' = [req EXCEPT ![r] = Caught(r, ConflictMessage, "Conflict")]
    /\ UNCHANGED <<sales, init, users, auth, now>>

SaleDoc(saleItems, total) ==
    [persisted |-> TRUE,
     items |-> [i \in 1..Len(saleItems) |->
                  [saleItems[i] EXCEPT !.quantity = Json(@),
                                       !.unitPrice = Json(@),
                                       !.total = Json(@)]],
     total |-> Json(total)]

\* every sale takes one fixed id instead of a fresh uuid, and the
\* write replaces what is stored under it
SalesInsertFixedId(db, r, saleDoc) == [db EXCEPT ![1] = saleDoc]

\* salesDb.insert(saleDoc) under the fresh id sale:<uuid> of request r: the
\* id names no stored document, so the write adds one and touches no other
SalesInsert(db, r, saleDoc) == [db EXCEPT ![r] = saleDoc]

\* the items array has no further element: await salesDb.insert(saleDoc)
\* and the 201 response
SaleInsertSale(r) ==
    /\ req[r].op = "sale"
    /\ req[r].pc = "loop"
    /\ sales' = SalesInsert(sales, r, SaleDoc(req[r].saleItems, req[r].total))
    /\ req' = [req EXCEPT ![r] =
                  [Finish(r, 201, "Venta realizada", "", "Created")
                     EXCEPT !.asked = req[r].asked]]
    /\ UNCHANGED <<products, init, users, auth, now>>

\* ------------------------------------------------------ POST /api/products
\* the values a request may carry in a price field
RawPrices == {RawNumber(3), RawNumber(-1)}

\* sanitizeProductInput: the error it throws, or "" when it returns
SanitizeError(name, rawPrice, rawStock) ==
    LET price == Number(OrDefault(rawPrice, 0))
        stock == parseInt(OrDefault(rawStock, 0))
    IN  IF name = "" THEN "Nombre es requerido"
        ELSE IF price.k = "nan" \/ JsLt(price, Num(0)) THEN "Precio invalido"
        ELSE IF stock.k = "nan" \/ JsLt(stock, Num(0)) THEN "Stock invalido"
        ELSE ""

sanitizeProductInput(name, rawPrice, rawStock) ==
    [name |-> name,
     price |-> Number(OrDefault(rawPrice, 0)),
     stock |-> parseInt(OrDefault(rawStock, 0))]

\* a new document gets an id (uuid) that no document has ever had
CreateProduct(r) ==
    /\ Starts(r)
    /\ \E id \in ProductIds, name \in {"", "B"},
          rawPrice \in RawPrices, rawStock \in RawQuantities :
          /\ products[id].state = "absent"
          /\ IF SanitizeError(name, rawPrice, rawStock) # ""
             THEN /\ req' = [req EXCEPT ![r] =
                       [Caught(r, SanitizeError(name, rawPrice, rawStock), "Invalid")
                          EXCEPT !.op = "create"]]
                  /\ products' = products
             ELSE LET prod == sanitizeProductInput(name, rawPrice, rawStock)
                  IN  /\ products' = [products EXCEPT ![id] =
                             LiveDoc(id, prod.name, Json(prod.price), Json(prod.stock))]
                      /\ req' = [req EXCEPT ![r] =
                             [Finish(r, 201, "Producto creado", id, "Created")
                                EXCEPT !.op = "create"]]
    /\ UNCHANGED <<sales, init, users, auth, now>>

\* --------------------------------------------------- PUT /api/products/:id
\* the values an update may carry in its stock and price fields (the
\* updates modelled leave the price as it is)
RawUpdateStocks == {Undefined, RawNumber(-1), RawNumber(2), RawText}
RawUpdatePrices == {Undefined}

\* if (price !== undefined) doc.price = Number(price);
\* if (stock !== undefined) doc.stock = parseInt(stock);
AssignFields(doc, rawPrice, rawStock) ==
    [doc EXCEPT !.price = IF rawPrice # Undefined THEN Number(rawPrice) ELSE @,
                !.stock = IF rawStock # Undefined THEN parseInt(rawStock) ELSE @]

UpdateGet(r) ==
    /\ Starts(r)
    /\ \E id \in ProductIds, rawPrice \in RawUpdatePrices,
          rawStock \in RawUpdateStocks :
          IF DbFound(products, id)
          THEN req' = [req EXCEPT ![r] =
                  [@ EXCEPT !.op = "update", !.pc = "insert", !.productId = id,
                            !.productDoc = AssignFields(products[id], rawPrice, rawStock)]]
          ELSE req' = [req EXCEPT ![r] =
                  [Finish(r, 400, "Error actualizando producto", "", "NotFound")
                     EXCEPT !.op = "update"]]
    /\ UNCHANGED <<products, sales, init, users, auth, now>>

UpdateInsert(r) ==
    /\ req[r].op = "update"
    /\ req[r].pc = "insert"
    /\ IF DbAccepts(products, WriteDoc(products, req[r].productDoc))
       THEN /\ products' = DbInsert(products, WriteDoc(products, req[r].productDoc))
            /\ req' = [req EXCEPT ![r] =
                          Finish(r, 200, "Producto actualizado", "", "Updated")]
       ELSE /\ products' = products
            /\ req' = [req EXCEPT ![r] =
                          Finish(r, 400, "Error actualizando producto", "", "Conflict")]
    /\ UNCHANGED <<sales, init, users, auth, now>>

\* ------------------------------------------------ DELETE /api/products/:id
DeleteGet(r) ==
    /\ Starts(r)
    /\ \E id \in ProductIds :
          IF DbFound(products, id)
          THEN req' = [req EXCEPT ![r] =
                  [@ EXCEPT !.op = "delete", !.pc = "destroy", !.productId = id,
                            !.productDoc = products[id]]]
          ELSE req' = [req EXCEPT ![r] =
                  [Finish(r, 400, "Error eliminando producto", "", "NotFound")
                     EXCEPT !.op = "delete"]]
    /\ UNCHANGED <<products, sales, init, users, auth, now>>

DeleteDestroy(r) ==
    /\ req[r].op = "delete"
    /\ req[r].pc = "destroy"
    /\ IF DbAccepts(products, req[r].productDoc)
       THEN /\ products' = DbDestroy(products, req[r].productDoc)
            /\ req' = [req EXCEPT ![r] =
                          Finish(r, 200, "Producto eliminado", "", "Deleted")]
       ELSE /\ products' = products
            /\ req' = [req EXCEPT ![r] =
                          Finish(r, 400, "Error eliminando producto", "", "Conflict")]
    /\ UNCHANGED <<sales, init, users, auth, now>>

\* ---------------------------------------------------------- specifications
NextSales ==
    \E r \in Reqs :
        \/ SaleStart(r)
        \/ SaleGet(r)
        \/ SaleInsertProduct(r)
        \/ SaleInsertSale(r)

\* sale requests only: no inventory create, update or delete
SpecSales == Init /\ [][NextSales]_vars

Next ==
    \E r \in Reqs :
        \/ SaleStart(r)
        \/ SaleGet(r)
        \/ SaleInsertProduct(r)
        \/ SaleInsertSale(r)
        \/ CreateProduct(r)
        \/ UpdateGet(r)
        \/ UpdateInsert(r)
        \/ DeleteGet(r)
        \/ DeleteDestroy(r)

\* sale requests and inventory requests, any number of them in flight
Spec == Init /\ [][Next]_vars

\* usersDb.find({ selector: { email }, limit: 1 }): the documents the
\* selector matches; the one returned is any of them
Matching(db, email) ==
    {id \in UserIds : db[id].state = "live" /\ db[id].email = email}

\* findUserByEmail: the documents it may return, NoUser standing for null
findUserByEmail(db, email) ==
    IF Matching(db, email) = {} THEN {NoUser}
    ELSE {db[id] : id \in Matching(db, email)}

\* usersDb.insert(doc): a document with a fresh id is added, a document
\* that was read is accepted only with the current revision
UsersAccepts(db, doc) ==
    IF db[doc.id].state = "absent" THEN TRUE ELSE db[doc.id].rev = doc.rev

UsersInsert(db, doc) == [db EXCEPT ![doc.id] = [doc EXCEPT !.rev = doc.rev + 1]]

AuthStarts(r) ==
    /\ auth[r].pc = "idle"
    /\ \A q \in Reqs : q < r => auth[q].pc # "idle"

\* the handler returns: its locals are gone; the record keeps the email and
\* the token a reset-password request presented
AuthReturn(cur, resp) ==
    [cur EXCEPT !.pc = "done", !.resp = resp, !.user = NoUser,
                !.email = IF cur.op = "reset" THEN @ ELSE "",
                !.token = IF cur.op = "reset" THEN @ ELSE NoToken]

\* POST /api/auth/register up to its usersDb.insert
RegisterCheck(r, email, password, exists) ==
    LET cur == [auth[r] EXCEPT !.op = "register"]
    IN  IF email = NotGiven \/ password = NotGiven
        THEN AuthReturn(cur, AuthResp(400, "email y password son requeridos"))
        ELSE IF exists # NoUser
        THEN AuthReturn(cur, AuthResp(400, "Usuario ya existe"))
        ELSE [cur EXCEPT !.pc = "insert",
                         !.user = UserDoc(r, email, Hash(password))]

\* the check for an existing user; the await of bcrypt.hash that follows
\* touches no shared state and is part of the wait for the insert
Register(r) ==
    /\ AuthStarts(r)
    /\ \E email \in Emails, password \in Passwords \cup {NotGiven} :
          \E exists \in findUserByEmail(users, email) :
             auth' = [auth EXCEPT ![r] = RegisterCheck(r, email, password, exists)]
    /\ UNCHANGED <<products, sales, req, init, users, now>>

\* await usersDb.insert(userDoc) under the fresh id user:<uuid>
RegisterInsert(r) ==
    /\ auth[r].op = "register"
    /\ auth[r].pc = "insert"
    /\ users' = UsersInsert(users, auth[r].user)
    /\ auth' = [auth EXCEPT ![r] = AuthReturn(@, AuthResp(201, "Usuario creado"))]
    /\ UNCHANGED <<products, sales, req, init, now>>

\* POST /api/auth/login: the response for a body and the document found
LoginResponse(user, password) ==
    IF user = NoUser THEN AuthResp(400, "Credenciales invalidas")
    ELSE IF CompareThrows(password) THEN AuthResp(500, "Error al iniciar sesion")
    ELSE IF ~Compare(password, user.passwordHash)
    THEN AuthResp(400, "Credenciales invalidas")
    ELSE AuthResp(200, "token")

Login(r) ==
    /\ AuthStarts(r)
    /\ \E email \in Emails, password \in Passwords \cup {NotGiven} :
          \E user \in findUserByEmail(users, email) :
             auth' = [auth EXCEPT ![r] =
                        AuthReturn([@ EXCEPT !.op = "login"],
                                   LoginResponse(user, password))]
    /\ UNCHANGED <<products, sales, req, init, users, now>>

\* POST /api/auth/request-reset up to its usersDb.insert: the token is a
\* fresh uuid and expiresAt is Date.now() + 1000 * 60 * 60
RequestResetCheck(r, email, user, time) ==
    LET cur == [auth[r] EXCEPT !.op = "request-reset"]
    IN  IF email = NotGiven
        THEN AuthReturn(cur, AuthResp(400, "Email requerido"))
        ELSE IF user = NoUser
        THEN AuthReturn(cur, AuthResp(404, "Usuario no encontrado"))
        ELSE [cur EXCEPT !.pc = "insert",
                         !.user = [user EXCEPT !.resetToken = r,
                                               !.resetExpires = time + ResetTtl]]

RequestReset(r) ==
    /\ AuthStarts(r)
    /\ \E email \in Emails \cup {NotGiven} :
          \E user \in findUserByEmail(users, email) :
             auth' = [auth EXCEPT ![r] = RequestResetCheck(r, email, user, now)]
    /\ UNCHANGED <<products, sales, req, init, users, now>>

\* a usersDb.insert of a document that was read, and the response
AuthWrite(r, done, failed) ==
    IF UsersAccepts(users, auth[r].user)
    THEN /\ users' = UsersInsert(users, auth[r].user)
         /\ auth' = [auth EXCEPT ![r] = AuthReturn(@, done)]
    ELSE /\ users' = users
         /\ auth' = [auth EXCEPT ![r] = AuthReturn(@, failed)]

RequestResetInsert(r) ==
    /\ auth[r].op = "request-reset"
    /\ auth[r].pc = "insert"
    /\ AuthWrite(r, AuthResp(200, "Token de restablecimiento"),
                    AuthResp(500, "Error al solicitar restablecimiento"))
    /\ UNCHANGED <<products, sales, req, init, now>>

\* !user.resetToken || user.resetToken !== token
TokenInvalid(user, token) == user.resetToken = NoToken \/ user.resetToken # token

\* the comparison that also rejects at the instant of expiry
TokenExpiredAtExpiry(user, time) ==
    user.resetExpires = 0 \/ time >= user.resetExpires

\* !user.resetExpires || Date.now() > user.resetExpires
TokenExpired(user, time) == user.resetExpires = 0 \/ time > user.resetExpires

\* the document written with the token left in place
ConsumeKeepToken(user, newPassword) ==
    [user EXCEPT !.passwordHash = Hash(newPassword)]

\* the new hash is set and resetToken and resetExpires are deleted
Consume(user, newPassword) ==
    [user EXCEPT !.passwordHash = Hash(newPassword),
                 !.resetToken = NoToken, !.resetExpires = 0]

\* POST /api/auth/reset-password up to its usersDb.insert, for a body that
\* carries email, token and newPassword
ResetCheck(r, email, token, newPassword, user, time) ==
    LET cur == [auth[r] EXCEPT !.op = "reset", !.email = email, !.token = token]
    IN  IF user = NoUser
        THEN AuthReturn(cur, AuthResp(404, "Usuario no encontrado"))
        ELSE IF TokenInvalid(user, token)
        THEN AuthReturn(cur, AuthResp(400, "Token invalido"))
        ELSE IF TokenExpired(user, time)
        THEN AuthReturn(cur, AuthResp(400, "Token expirado"))
        ELSE [cur EXCEPT !.pc = "insert", !.user = Consume(user, newPassword)]

ResetPassword(r) ==
    /\ AuthStarts(r)
    /\ \E email \in Emails, token \in Tokens, newPassword \in NewPasswords :
          \E user \in findUserByEmail(users, email) :
             auth' = [auth EXCEPT ![r] =
                        ResetCheck(r, email, token, newPassword, user, now)]
    /\ UNCHANGED <<products, sales, req, init, users, now>>

ResetPasswordInsert(r) ==
    /\ auth[r].op = "reset"
    /\ auth[r].pc = "insert"
    /\ AuthWrite(r, AuthResp(200, "Contrasena actualizada"),
                    AuthResp(500, "Error al restablecer contrasena"))
    /\ UNCHANGED <<products, sales, req, init, now>>

\* time passes: Date.now() moves on by a millisecond or by the life of a token
Tick ==
    /\ (now \div ResetTtl) + (now % ResetTtl) < MaxTicks
    /\ \E step \in {1, ResetTtl} : now' = now + step
    /\ UNCHANGED <<products, sales, req, init, users, auth>>

NextAuth ==
    \/ \E r \in Reqs :
          \/ Register(r)
          \/ RegisterInsert(r)
          \/ Login(r)
          \/ RequestReset(r)
          \/ RequestResetInsert(r)
          \/ ResetPassword(r)
          \/ ResetPasswordInsert(r)
    \/ Tick

\* the auth requests, any number of them in flight, and the clock
SpecAuth == Init /\ [][NextAuth]_vars

\* ------------------------------------------------------------- properties
Live(id) == products[id].state = "live"

Done(r) == req[r].pc = "done"

\* request r was a sale of exactly one line: one unit of product id
SingleUnit(r, id) ==
    /\ req[r].op = "sale"
    /\ Done(r)
    /\ req[r].line = 1
    /\ req[r].soleUnit = id

\* the only requests made so far are r1 and r2
OnlyRequests(r1, r2) == \A r \in Reqs \ {r1, r2} : req[r].pc = "idle"

\* C1: a product starts with stock 1 and the only two requests are sales of
\* one unit of it; once both have returned, exactly one returned 201 with its
\* sale persisted, the other returned a failure with no sale, and the stock
\* of the product is 0
C1_ExactlyOneSuccess ==
    \A id \in ProductIds, r1 \in Reqs, r2 \in Reqs :
        ( /\ r1 # r2
          /\ init[id].state = "live"
          /\ init[id].stock = Num(1)
          /\ SingleUnit(r1, id)
          /\ SingleUnit(r2, id)
          /\ OnlyRequests(r1, r2) )
        => /\ \E w \in {r1, r2} :
                LET l == IF w = r1 THEN r2 ELSE r1
                IN  /\ req[w].resp.status = 201
                    /\ sales[w].persisted
                    /\ req[l].resp.status = 400
                    /\ ~sales[l].persisted
           /\ products[id].stock = Num(0)

\* both requests read revision 1 and the loser is rejected by the store
C1_Witness ==
    \E r1 \in Reqs, r2 \in Reqs :
        /\ r1 # r2
        /\ init["p1"].stock = Num(1)
        /\ SingleUnit(r1, "p1")
        /\ SingleUnit(r2, "p1")
        /\ OnlyRequests(r1, r2)
        /\ req[r1].outcome = "Created"
        /\ req[r2].outcome = "Conflict"

\* C2: with sale requests only, no product document ever holds a stock
\* below 0
C2_StockNeverNegative ==
    \A id \in ProductIds : Live(id) => ~JsLt(products[id].stock, Num(0))

\* the stock was sold down to 0 and a further line was refused
C2_Witness ==
    /\ JsLt(Num(0), init["p1"].stock)
    /\ products["p1"].stock = Num(0)
    /\ \E r \in Reqs : req[r].outcome = "InsufficientStock"

\* C3: every stored product document has an integer stock >= 0, whatever
\* product creates, updates, deletes and sales have run
C3_StockIsNaturalNumber ==
    \A id \in ProductIds :
        Live(id) => products[id].stock.k = "num" /\ products[id].stock.n >= 0

\* C4: a sale request with a zero, negative or non-numeric quantity in any
\* line returns the quantity error, has written no product document and
\* persists no sale
C4_InvalidQuantityRejectedFirst ==
    \A r \in Reqs :
        req[r].badQty =>
            /\ Done(r)
            /\ req[r].outcome = "InvalidQuantity"
            /\ req[r].resp.status = 400
            /\ req[r].line = 1
            /\ ~sales[r].persisted

\* request r returns a failure in this step
FailsNow(r) ==
    /\ req[r].op = "sale" \/ req[r].pc = "idle"
    /\ ~Done(r)
    /\ req'[r].pc = "done"
    /\ req'[r].op = "sale"
    /\ req'[r].resp.status # 201

\* C5: the step in which a sale request fails changes no product document
\* and persists no sale, so the decrements its earlier lines wrote stay as
\* written; a request that has returned takes no further step
C5_FailureKeepsEarlierDecrements ==
    [][\A r \in Reqs :
          /\ FailsNow(r) => products' = products /\ ~sales'[r].persisted
          /\ Done(r) => req'[r] = req[r] /\ sales'[r] = sales[r]]_vars

\* a request failed on its second line and the decrement of its first line
\* is in the product document
C5_Witness ==
    \E r \in Reqs :
        /\ req[r].op = "sale"
        /\ Done(r)
        /\ req[r].outcome = "InsufficientStock"
        /\ req[r].line = 2
        /\ ~sales[r].persisted
        /\ OnlyRequests(r, r)
        /\ JsLt(products["p1"].stock, init["p1"].stock)

\* the stock write of a sale line of r is accepted in this step
SaleWriteAccepted(r) ==
    /\ req[r].op = "sale"
    /\ req[r].pc = "insert"
    /\ req'[r].pc = "loop"

\* C6: the stock right after an accepted sale line write is the stock of
\* the revision it replaced minus the quantity of the line
C6_AcceptedWriteSubtractsQuantity ==
    [][\A r \in Reqs :
          SaleWriteAccepted(r) =>
              products'[req[r].productId].stock =
                  JsSub(products[req[r].productId].stock, req[r].quantity)]_vars

RECURSIVE SumTotals(_)
SumTotals(items) ==
    IF items = << >> THEN Num(0)
    ELSE JsAdd(SumTotals(SubSeq(items, 1, Len(items) - 1)), items[Len(items)].total)

\* C7: in every persisted sale the total is the sum of the line totals and
\* every line total is unit price times quantity
C7_SaleTotals ==
    \A r \in Reqs :
        sales[r].persisted =>
            /\ sales[r].total = SumTotals(sales[r].items)
            /\ \A i \in 1..Len(sales[r].items) :
                  sales[r].items[i].total =
                      JsMul(sales[r].items[i].unitPrice, sales[r].items[i].quantity)

\* C8: when the product of a line is found and its stock is below the
\* quantity, the request returns the shortage response with the name of
\* that product and the step writes no product document
C8_InsufficientStockResponse ==
    [][\A r \in Reqs :
          ( /\ req[r].pc \in {"idle", "loop"}
            /\ req'[r].op = "sale"
            /\ req'[r].line = req[r].line + 1
            /\ ~JsLe(req'[r].quantity, Num(0))
            /\ req'[r].productId \in ProductIds
            /\ Live(req'[r].productId)
            /\ JsLt(products[req'[r].productId].stock, req'[r].quantity) )
          => /\ req'[r].pc = "done"
             /\ req'[r].outcome = "InsufficientStock"
             /\ req'[r].resp =
                  Resp(400, "Stock insuficiente para producto",
                       products[req'[r].productId].name)
             /\ products' = products]_vars

\* a line for product p1 was refused for lack of stock
C8_Witness ==
    \E r \in Reqs :
        /\ req[r].outcome = "InsufficientStock"
        /\ req[r].resp.arg = "A"

\* C9: the response of a sale that lost a revision conflict is never equal,
\* in status and content together, to a shortage response
C9_ConflictDiffersFromInsufficientStock ==
    \A r1 \in Reqs, r2 \in Reqs :
        ( /\ req[r1].op = "sale"
          /\ req[r1].outcome = "Conflict"
          /\ req[r2].outcome = "InsufficientStock" )
        => req[r1].resp # req[r2].resp

\* one sale lost a conflict and another was refused for lack of stock
C9_Witness ==
    \E r1 \in Reqs, r2 \in Reqs :
        /\ req[r1].op = "sale"
        /\ req[r1].outcome = "Conflict"
        /\ req[r2].outcome = "InsufficientStock"

\* request r holds a copy of a product document that it is about to write
Holds(r, id) ==
    /\ req[r].pc \in {"insert", "destroy"}
    /\ req[r].productDoc.id = id

\* request r moves past its write in this step with the write accepted
WriteAccepted(r) ==
    \/ req[r].op = "sale" /\ req[r].pc = "insert" /\ req'[r].pc = "loop"
    \/ req[r].op = "update" /\ req[r].pc = "insert" /\ req'[r].outcome = "Updated"
    \/ req[r].op = "delete" /\ req[r].pc = "destroy" /\ req'[r].outcome = "Deleted"

\* C10: a product document changes only through the write of a request that
\* read the revision being replaced, and when a write is accepted every
\* other request that read the same revision can no longer have its own
\* write accepted; revisions never go back
C10_NoLostUpdate ==
    [][\A id \in ProductIds :
          /\ (Live(id) /\ products'[id] # products[id]) =>
                \E r \in Reqs :
                    /\ Holds(r, id)
                    /\ WriteAccepted(r)
                    /\ req[r].productDoc.rev = products[id].rev
          /\ \A r1 \in Reqs, r2 \in Reqs :
                ( /\ r1 # r2
                  /\ Holds(r1, id)
                  /\ Holds(r2, id)
                  /\ req[r1].productDoc.rev = req[r2].productDoc.rev
                  /\ WriteAccepted(r1) )
                => /\ req'[r2] = req[r2]
                   /\ ~DbAccepts(products', req'[r2].productDoc)
          /\ products'[id].rev >= products[id].rev]_vars

\* a sale and an update, the only requests, read the same revision of p1;
\* the update was written and the sale was rejected
C10_Witness ==
    \E r1 \in Reqs, r2 \in Reqs :
        /\ req[r1].op = "update"
        /\ req[r1].outcome = "Updated"
        /\ req[r2].op = "sale"
        /\ req[r2].outcome = "Conflict"
        /\ OnlyRequests(r1, r2)
        /\ products["p1"].rev = 2

\* C11: sales are append-only: a sale document that is persisted is left as
\* it is by every step of every handler, so it is never changed or removed
\* and keeps its items, unit prices and total
C11_SalesAppendOnly ==
    [][\A r \in Reqs : sales[r].persisted => sales'[r] = sales[r]]_vars

\* two sales with line items are persisted: the second was written, and the
\* stock of its product changed, while the first was stored
C11_Witness ==
    \E r1 \in Reqs, r2 \in Reqs :
        /\ r1 # r2
        /\ sales[r1].persisted /\ Len(sales[r1].items) > 0
        /\ sales[r2].persisted /\ Len(sales[r2].items) > 0

\* C16: a sale request with a line whose product reference resolves to no
\* product fails with the not-found class, status 404, and persists no sale
C16_UnknownProductIsNotFound ==
    \A r \in Reqs :
        req[r].op = "sale" /\ req[r].outcome = "NotFound"
            => /\ req[r].resp.status = 404
               /\ ~sales[r].persisted

\* C17: a sale is persisted only by a request all of whose lines passed the
\* checks and had their stock write accepted: a request that returned 201
\* has its sale persisted with one item per line it asked for, in the order
\* asked; a request that returned a failure has no sale; and a persisted
\* sale belongs to a request that returned 201
C17_SaleOnlyAfterEveryLine ==
    \A r \in Reqs :
        req[r].op = "sale" =>
            /\ Done(r) /\ req[r].resp.status = 201 =>
                  /\ sales[r].persisted
                  /\ Len(sales[r].items) = req[r].line
                  /\ Len(sales[r].items) = Len(req[r].asked)
                  /\ \A i \in 1..Len(sales[r].items) :
                        /\ sales[r].items[i].productId = req[r].asked[i].productId
                        /\ sales[r].items[i].quantity = Json(req[r].asked[i].quantity)
            /\ Done(r) /\ req[r].resp.status # 201 => ~sales[r].persisted
            /\ sales[r].persisted => Done(r) /\ req[r].resp.status = 201

\* a request of two lines that differ returned 201, and another request
\* failed after one of its lines had been written
C17_Witness ==
    \E r1 \in Reqs, r2 \in Reqs :
        /\ Done(r1) /\ req[r1].resp.status = 201
        /\ Len(req[r1].asked) = 2
        /\ req[r1].asked[1] # req[r1].asked[2]
        /\ Done(r2) /\ req[r2].op = "sale" /\ req[r2].resp.status = 400
        /\ req[r2].line = 2

\* the sum of the quantities of the lines of product id among items
RECURSIVE Taken(_, _)
Taken(items, id) ==
    IF items = << >> THEN Num(0)
    ELSE LET rest == Taken(SubSeq(items, 1, Len(items) - 1), id)
             last == items[Len(items)]
         IN  IF last.productId = id THEN JsAdd(rest, last.quantity) ELSE rest

\* the lines of request r whose stock write has been accepted: all the lines
\* it has taken, but the last one while its write is awaited
Written(r) ==
    IF req[r].pc = "insert"
    THEN SubSeq(req[r].asked, 1, Len(req[r].asked) - 1)
    ELSE req[r].asked

\* C18: while request r is the only request made, its lines are handled in
\* order, each write landing before the next read: whenever r awaits a write
\* or stands between two lines, every line before the current one has been
\* written, the stored stock of every product is its stock at the start
\* less the quantities of the written lines of that product, the copy that
\* awaits its write was decremented from that stored stock, and the
\* quantities r has taken from a product, the awaited line included, do not
\* exceed the stock the product had at the start
C18_LinesInOrderAgainstReducedStock ==
    \A r \in Reqs :
        ( /\ OnlyRequests(r, r)
          /\ req[r].op = "sale"
          /\ req[r].pc \in {"insert", "loop"} \/ sales[r].persisted )
        => /\ Len(req[r].asked) = req[r].line
           /\ \A id \in ProductIds :
                 Live(id) =>
                    /\ products[id].stock =
                          Json(JsSub(init[id].stock, Taken(Written(r), id)))
                    /\ ~JsLt(init[id].stock, Taken(req[r].asked, id))
                    /\ JsLe(JsSub(init[id].stock, products[id].stock),
                            init[id].stock)
           /\ req[r].pc = "insert" =>
                 req[r].productDoc.stock =
                     JsSub(products[req[r].productId].stock, req[r].quantity)

\* the only request made asked twice for one unit of a product that had one
\* unit at the start: its first line was written and its second line was
\* refused for lack of stock
C18_Witness ==
    \E r \in Reqs, id \in ProductIds :
        /\ OnlyRequests(r, r)
        /\ Done(r)
        /\ req[r].line = 2
        /\ req[r].outcome = "InsufficientStock"
        /\ req[r].productId = id
        /\ req[r].quantity = Num(1)
        /\ init[id].stock = Num(1)
        /\ products[id].stock = Num(0)

\* the quantities of product id in the lines whose stock write was accepted,
\* summed over the requests 1..n
RECURSIVE AcceptedUpTo(_, _)
AcceptedUpTo(n, id) ==
    IF n = 0 THEN Num(0)
    ELSE JsAdd(AcceptedUpTo(n - 1, id), Taken(Written(n), id))

\* the quantities of product id in the persisted sales of the requests 1..n
RECURSIVE PersistedUpTo(_, _)
PersistedUpTo(n, id) ==
    IF n = 0 THEN Num(0)
    ELSE IF sales[n].persisted
         THEN JsAdd(PersistedUpTo(n - 1, id), Taken(sales[n].items, id))
         ELSE PersistedUpTo(n - 1, id)

\* some request failed after a line of product id of its own was written
FailedAfterWrite(id) ==
    \E r \in Reqs :
        /\ req[r].op = "sale" /\ Done(r) /\ req[r].resp.status # 201
        /\ \E i \in 1..Len(req[r].asked) : req[r].asked[i].productId = id

\* some request that has not returned yet has had a line of product id
\* written
UnfinishedAfterWrite(id) ==
    \E r \in Reqs :
        /\ req[r].op = "sale" /\ ~Done(r)
        /\ \E i \in 1..Len(Written(r)) : Written(r)[i].productId = id

\* C19: with sale requests as the only writers, for every product the stock
\* at the start less the current stock is the sum of the quantities of the
\* lines whose write was accepted, that sum is at least the sum of the
\* quantities of the product in the persisted sales, and the two are equal
\* exactly when no request failed after having written a line of the product
\* (a request that wrote a line and has not returned yet counts with the
\* requests whose written lines are in no persisted sale)
C19_StockConservation ==
    \A id \in ProductIds :
        Live(id) =>
            /\ JsSub(init[id].stock, products[id].stock) = AcceptedUpTo(NumReq, id)
            /\ JsLe(PersistedUpTo(NumReq, id), AcceptedUpTo(NumReq, id))
            /\ (AcceptedUpTo(NumReq, id) = PersistedUpTo(NumReq, id))
                   <=> (~FailedAfterWrite(id) /\ ~UnfinishedAfterWrite(id))

\* C12: user emails are unique: whatever register requests have run, one
\* after another or interleaved, at most one user document holds an email
C12_EmailsUnique ==
    \A email \in Emails : Cardinality(Matching(users, email)) <= 1

AuthDone(r) == auth[r].pc = "done"

\* handler r was a reset-password request that succeeded
ResetSucceeded(r) ==
    auth[r].op = "reset" /\ AuthDone(r) /\ auth[r].resp.status = 200

\* handler r takes the first step of a reset-password request
ResetBegins(r) == auth[r].pc = "idle" /\ auth'[r].op = "reset"

\* C13: a reset token is single-use: of the reset-password requests that
\* present a token at most one succeeds, and a reset-password request for
\* the same email that starts after a successful use of the token it
\* presents returns the invalid-token response and writes no user document
C13_ResetTokenSingleUse ==
    [][ /\ \A r1 \in Reqs, r2 \in Reqs :
              ( /\ ResetSucceeded(r1)' /\ ResetSucceeded(r2)'
                /\ auth'[r1].token = auth'[r2].token ) => r1 = r2
        /\ \A r \in Reqs, q \in Reqs :
              ( /\ ResetBegins(r)
                /\ ResetSucceeded(q)
                /\ auth[q].token = auth'[r].token
                /\ auth[q].email = auth'[r].email )
              => /\ AuthDone(r)'
                 /\ auth'[r].resp = AuthResp(400, "Token invalido")
                 /\ users' = users ]_vars

\* two reset-password requests presented the same token for the same email:
\* one succeeded and the other has failed
C13_Witness ==
    \E r1 \in Reqs, r2 \in Reqs :
        /\ r1 # r2
        /\ ResetSucceeded(r1)
        /\ auth[r2].op = "reset" /\ AuthDone(r2) /\ auth[r2].resp.status # 200
        /\ auth[r2].token = auth[r1].token
        /\ auth[r2].email = auth[r1].email

\* C14: request-reset sets the expiry to the time of issue plus one hour; a
\* reset-password request that presents the token the user document holds
\* later than that expiry returns the expired-token response and writes no
\* user document, and one that presents it at or before the expiry is not
\* answered with the expired-token response
C14_ExpiredTokenRejected ==
    [][\A r \in Reqs :
          /\ ( auth[r].pc = "idle" /\ auth'[r].op = "request-reset"
                  /\ auth'[r].pc = "insert" )
              => auth'[r].user.resetExpires = now + 60 * 60 * 1000
          /\ \A id \in UserIds :
                ( /\ ResetBegins(r)
                  /\ Matching(users, auth'[r].email) = {id}
                  /\ users[id].resetToken = auth'[r].token )
                => IF now > users[id].resetExpires
                   THEN /\ AuthDone(r)'
                        /\ auth'[r].resp = AuthResp(400, "Token expirado")
                        /\ users' = users
                   ELSE auth'[r].resp.message # "Token expirado" ]_vars

\* a reset-password request with the token the user holds was answered with
\* the expired-token response one millisecond after the expiry, while
\* another, begun no later than the expiry, awaits its write
C14_Witness ==
    \E r1 \in Reqs, r2 \in Reqs, id \in UserIds :
        /\ auth[r1].op = "reset" /\ auth[r1].pc = "insert"
        /\ auth[r1].user.id = id
        /\ auth[r2].op = "reset" /\ AuthDone(r2)
        /\ auth[r2].resp = AuthResp(400, "Token expirado")
        /\ auth[r2].token = users[id].resetToken
        /\ auth[r2].email = users[id].email
        /\ now = users[id].resetExpires + 1

\* the password is not the one the user document holds: bcrypt.compare
\* rejects or resolves to false
WrongPassword(user, password) ==
    CompareThrows(password) \/ ~Compare(password, user.passwordHash)

\* C15: login does not reveal whether an email is registered: the response
\* to a login with an email no user document holds and the response to a
\* login with the email of a user document and a wrong password are equal,
\* status and body
C15_LoginHidesRegistration ==
    \A e1 \in Emails, e2 \in Emails :
        \A p1 \in Passwords \cup {NotGiven}, p2 \in Passwords \cup {NotGiven} :
            \A u1 \in findUserByEmail(users, e1), u2 \in findUserByEmail(users, e2) :
                u1 = NoUser /\ u2 # NoUser /\ WrongPassword(u2, p2)
                    => LoginResponse(u1, p1) = LoginResponse(u2, p2)

====
